---- MODULE Spec2Model ----
(***************************************************************************)
(* Model of the tourism pipeline: TourismAgentWithTools.run and the three  *)
(* tools it invokes (get_coordinates, get_weather, get_tourist_places),    *)
(* extract_place_name, determine_intent, the web endpoint plan_trip that   *)
(* calls run, and the parent agent TourismAgent with its extraction, its   *)
(* routing and its two child agents.                                       *)
(*                                                                         *)
(* Strings are sequences of atoms.  An atom is either a piece of text      *)
(* (a template literal, or a free-text field such as a place name, a       *)
(* display name, an attraction name or an exception's text) or a run of    *)
(* digits.  A substring test of the code ("don't know" in s.lower()) is a  *)
(* test over the atoms of the string: the tables below list, for every     *)
(* text atom of the model, which of the searched substrings it contains.   *)
(* Free-text fields hold no newline, no "|" and no "COORDS:".              *)
(***************************************************************************)
EXTENDS Integers, Sequences, FiniteSets, TLC

VARIABLES
    pc,             \* position inside run: idle, geocode, weather_geocode,
                    \* weather_fetch, places_geocode, places_fetch, done
    user_query,     \* the argument of run (a sequence of words)
    place_name,     \* run's local place_name (a string)
    geo_result,     \* run's local geo_result (None before line 195)
    response,       \* run's local response / the returned TourismResponse
    message_parts,  \* run's local message_parts
    weather_result, \* run's local weather_result (None before the tool returns)
    places_result,  \* run's local places_result (None before the tool returns)
    tool_geo,       \* geo_result local to the tool that is executing
    w_path,         \* the return statement get_weather took in this run
    p_path,         \* the return statement get_tourist_places took in this run
    calls,          \* the calls made so far in this run, in order
    answers,        \* what the services answered so far in this run, in order
    earlier,        \* the earlier call of run that the caller repeats (or None)
    classified,     \* the last result of extract_place_name / determine_intent
                    \* applied on their own (or None)
    web,            \* the request plan_trip is handling and its reply
    parent          \* the frame of TourismAgent.run of agents/parent_agent.py

vars == <<pc, user_query, place_name, geo_result, response, message_parts,
          weather_result, places_result, tool_geo, w_path, p_path, calls,
          answers, earlier, classified, web, parent>>

\* the locals of TourismAgentWithTools.run and the logs kept of it
run_vars == <<pc, user_query, place_name, geo_result, response, message_parts,
              weather_result, places_result, tool_geo, w_path, p_path, calls,
              answers, earlier, classified>>

----------------------------------------------------------------------------
(* Optional values (Python's None) and strings.                            *)

None == <<>>
Some(x) == <<x>>

A(s) == [k |-> "str", s |-> s, n |-> 0]
D(n) == [k |-> "num", s |-> "", n |-> n]
NL == A("\n")
BAR == A("|")
COORDS == A("COORDS:")

\* str(x) of a number: a sign and a run of digits
FormatNumber(n) == IF n < 0 THEN <<A("-"), D(0 - n)>> ELSE <<D(n)>>

\* float(s) / int(s): None stands for ValueError
ParseNumber(s) ==
    IF Len(s) = 1 /\ s[1].k = "num" THEN Some(s[1].n)
    ELSE IF Len(s) = 2 /\ s[1] = A("-") /\ s[2].k = "num" THEN Some(0 - s[2].n)
    ELSE None

\* text atoms that contain the substring the code searches for
HasDegC == {"°C with a chance of "}
HasCurrently == {" it's currently ", "Weather data is currently unavailable for "}
HasDontKnowLower == {"I don't know if the place '", "I Don't Know Cafe",
                     "We Don't Know Museum"}
HasPlacesPhrase == {" these are the places you can go,"}
HasCouldntFindLower == {"I couldn't find specific tourist attractions in "}
StartsWithDegC == {"°C with a chance of "}
StartsWithPercent == {"% to rain."}

\* `sub in s` (and `sub in s.lower()`), by the table of the atoms holding sub
Contains(s, holders) == \E i \in 1..Len(s) : s[i].k = "str" /\ s[i].s \in holders

\* s.strip(): leading and trailing whitespace removed
IsSpace(a) == a \in {NL, A(" ")}
RECURSIVE LStrip(_)
LStrip(s) == IF s # <<>> /\ IsSpace(s[1]) THEN LStrip(Tail(s)) ELSE s
RECURSIVE RStrip(_)
RStrip(s) == IF s # <<>> /\ IsSpace(s[Len(s)]) THEN RStrip(SubSeq(s, 1, Len(s) - 1)) ELSE s
Strip(s) == RStrip(LStrip(s))

\* s.split(sep) for a separator that is one atom
RECURSIVE SplitAcc(_, _, _, _)
SplitAcc(s, sep, cur, acc) ==
    IF s = <<>> THEN Append(acc, cur)
    ELSE IF s[1] = sep THEN SplitAcc(Tail(s), sep, <<>>, Append(acc, cur))
    ELSE SplitAcc(Tail(s), sep, Append(cur, s[1]), acc)
Split(s, sep) == SplitAcc(s, sep, <<>>, <<>>)

\* sep.join(items)
RECURSIVE Join(_, _)
Join(items, sep) ==
    IF items = <<>> THEN <<>>
    ELSE IF Len(items) = 1 THEN items[1]
    ELSE items[1] \o <<sep>> \o Join(Tail(items), sep)

\* re.search(r'(\d+\.?\d*)°C', s) and re.search(r'(\d+)%', s): the first run of
\* digits directly followed by the unit; group(1) holds the digits only
RECURSIVE SearchDigitsBefore(_, _)
SearchDigitsBefore(s, units) ==
    IF Len(s) < 2 THEN None
    ELSE IF s[1].k = "num" /\ s[2].k = "str" /\ s[2].s \in units THEN Some(s[1].n)
    ELSE SearchDigitsBefore(Tail(s), units)

\* sub occurs in s as a contiguous run
IsInfix(sub, s) ==
    \E i \in 0..(Len(s) - Len(sub)) : SubSeq(s, i + 1, i + Len(sub)) = sub

----------------------------------------------------------------------------
(* tools/geocoding_tool.py                                                 *)

\* what the place-search service can answer with: a first match (its
\* display_name is a list of comma-separated components)
GeoHits == {
    [display_name |-> <<"Paris", "Ile-de-France", "France">>, lat |-> 48, lon |-> 2],
    [display_name |-> <<"I Don't Know Cafe", "Springfield">>, lat |-> 0, lon |-> 0 - 93] }
NoHit == [display_name |-> <<>>, lat |-> 0, lon |-> 0]
ExcText == <<A("HTTPSConnectionPool: Max retries exceeded")>>

GeoFailures == {"notfound", "timeout", "reqerror", "unexpected"}
GeoResponses == {[kind |-> "found", hit |-> h] : h \in GeoHits}
                \cup {[kind |-> k, hit |-> NoHit] : k \in GeoFailures}

GeoFailure(error) ==
    [success |-> FALSE, error |-> Some(error), place |-> None,
     latitude |-> None, longitude |-> None]

\* get_coordinates(place_name), given the service's answer
get_coordinates(name, r) ==
    CASE r.kind = "found" ->
            [success |-> TRUE, place |-> Some(r.hit.display_name),
             latitude |-> Some(r.hit.lat), longitude |-> Some(r.hit.lon),
             error |-> None]
      [] r.kind = "notfound" ->
            GeoFailure(<<A("Place '")>> \o name \o
                <<A("' not found. Please check the spelling or try a different name.")>>)
      [] r.kind = "timeout" ->
            GeoFailure(<<A("Geocoding service timed out. Please try again.")>>)
      [] r.kind = "reqerror" ->
            GeoFailure(<<A("Error connecting to geocoding service: ")>> \o ExcText)
      [] OTHER ->
            GeoFailure(<<A("Unexpected error during geocoding: ")>> \o ExcText)

\* geo_result["place"].split(",")[0]
PlaceDisplay(geo) == <<A(geo.place[1][1])>>

\* f"I don't know if the place '{place_name}' exists. {geo_result['error']}"
DontKnowPlace(name, geo) ==
    <<A("I don't know if the place '")>> \o name \o <<A("' exists. ")>> \o geo.error[1]

----------------------------------------------------------------------------
(* tools/weather_tool.py                                                   *)

\* the "current" object of the forecast service's answer; None is an absent key
Forecasts == {
    [temperature_2m |-> Some(24), precipitation_probability |-> Some(35)],
    [temperature_2m |-> Some(0 - 5), precipitation_probability |-> None],
    [temperature_2m |-> None, precipitation_probability |-> Some(10)] }
NoForecast == [temperature_2m |-> None, precipitation_probability |-> None]
FetchFailures == {"timeout", "reqerror", "unexpected"}
WeatherResponses == {[kind |-> "ok", current |-> f] : f \in Forecasts}
                    \cup {[kind |-> k, current |-> NoForecast] : k \in FetchFailures}

\* the return statement get_weather takes after a successful geocoding
WeatherPath(r) ==
    IF r.kind = "ok"
    THEN (IF r.current.temperature_2m # None THEN "ok" ELSE "unavailable")
    ELSE r.kind

\* the string get_weather returns after a successful geocoding
WeatherText(geo, r) ==
    LET temperature == r.current.temperature_2m
        precipitation_prob == IF r.current.precipitation_probability = None
                              THEN 0 ELSE r.current.precipitation_probability[1]
    IN  CASE WeatherPath(r) = "ok" ->
                <<A("In ")>> \o PlaceDisplay(geo) \o <<A(" it's currently ")>>
                \o FormatNumber(temperature[1]) \o <<A("°C with a chance of ")>>
                \o FormatNumber(precipitation_prob) \o <<A("% to rain.")>>
          [] WeatherPath(r) = "unavailable" ->
                <<A("Weather data is currently unavailable for ")>>
                \o PlaceDisplay(geo) \o <<A(".")>>
          [] WeatherPath(r) = "timeout" ->
                <<A("Weather service timed out. Please try again.")>>
          [] WeatherPath(r) = "reqerror" ->
                <<A("Error fetching weather data: ")>> \o ExcText
          [] OTHER ->
                <<A("Unexpected error getting weather: ")>> \o ExcText

----------------------------------------------------------------------------
(* tools/places_tool.py                                                    *)

MaxElements == 8    \* the longest list of elements the map service answers with
PlacesLimit == 5

Node(name, lat, lon) ==
    [type |-> "node", name |-> name, lat |-> lat, lon |-> lon, center |-> None]
Way(name, center) ==
    [type |-> "way", name |-> name, lat |-> None, lon |-> None, center |-> center]
Center(lat, lon) == Some([lat |-> lat, lon |-> lon])

\* the features around the place, in the order the map service lists them: an
\* unnamed one, one whose name is a blank, a name that occurs twice and once
\* more in lower case, ways with and without a centroid, a point on the
\* equator and the prime meridian
Catalog == <<
    Node(None, Some(47), Some(1)),
    Node(Some(" "), Some(46), Some(9)),
    Node(Some("Louvre"), Some(48), Some(2)),
    Way(Some("Louvre"), Center(48, 2)),
    Node(Some("louvre"), Some(45), Some(10)),
    Way(Some("Tuileries"), Center(49, 3)),
    Way(Some("Old Wall"), None),
    Node(Some("Meridian Marker"), Some(0), Some(0)),
    Node(Some("We Don't Know Museum"), Some(50), Some(0 - 4)),
    Node(Some("Pantheon"), Some(51), Some(5)),
    Node(Some("Orsay"), Some(52), Some(6)),
    Node(Some("Rodin"), Some(53), Some(7)),
    Node(Some("Arc"), Some(54), Some(8)) >>

\* data.get("elements", []): any run of consecutive features of the catalog
ElementLists ==
    {SubSeq(Catalog, w[1], w[2]) :
        w \in {v \in (1..Len(Catalog)) \X (0..Len(Catalog)) :
                  v[2] >= v[1] - 1 /\ v[2] - v[1] + 1 <= MaxElements}}

PlacesResponses == {[kind |-> "ok", elements |-> e] : e \in ElementLists}
                   \cup {[kind |-> k, elements |-> <<>>] : k \in FetchFailures}

\* Python truthiness of a name and of a coordinate
NameTruthy(name) == name # None /\ name[1] # ""
NumTruthy(x) == x # None /\ x[1] # 0

Range(seq) == {seq[i] : i \in 1..Len(seq)}

StopCollecting_never(places) == FALSE

\* if len(places) >= 5: break
StopCollecting(places) == Len(places) >= PlacesLimit

\* lat, lon of an element: its own, or its center's for a way lacking them
ElementCoords(element) ==
    IF (element.lat = None \/ element.lon = None)
       /\ element.type = "way" /\ element.center # None
    THEN [lat |-> Some(element.center[1].lat), lon |-> Some(element.center[1].lon)]
    ELSE [lat |-> element.lat, lon |-> element.lon]

\* f"{name}|{lat}|{lon}"
CoordsLine(name, c) ==
    <<A(name)>> \o <<BAR>> \o FormatNumber(c.lat[1]) \o <<BAR>> \o FormatNumber(c.lon[1])

\* the loop over elements: places and places_with_coords (seen_names is the
\* set of the names in places)
RECURSIVE CollectPlaces(_, _, _)
CollectPlaces(elements, places, places_with_coords) ==
    IF elements = <<>>
    THEN [places |-> places, places_with_coords |-> places_with_coords]
    ELSE LET element == Head(elements)
             name == element.name
         IN  IF NameTruthy(name) /\ name[1] \notin Range(places)
             THEN LET places2 == Append(places, name[1])
                      c == ElementCoords(element)
                      pwc2 == IF NumTruthy(c.lat) /\ NumTruthy(c.lon)
                              THEN Append(places_with_coords, CoordsLine(name[1], c))
                              ELSE places_with_coords
                  IN  IF StopCollecting(places2)
                      THEN [places |-> places2, places_with_coords |-> pwc2]
                      ELSE CollectPlaces(Tail(elements), places2, pwc2)
             ELSE CollectPlaces(Tail(elements), places, places_with_coords)

Collected(r) == CollectPlaces(r.elements, <<>>, <<>>)

\* the return statement get_tourist_places takes after a successful geocoding
PlacesPath(r) ==
    IF r.kind = "ok"
    THEN (IF Collected(r).places # <<>> THEN "ok" ELSE "empty")
    ELSE r.kind

\* the string get_tourist_places returns after a successful geocoding
PlacesText(geo, r) ==
    LET got == Collected(r)
        places_list == Join([i \in 1..Len(got.places) |-> <<A(got.places[i])>>], NL)
        coords_list == Join(got.places_with_coords, NL)
    IN  CASE PlacesPath(r) = "ok" ->
                <<A("In ")>> \o PlaceDisplay(geo)
                \o <<A(" these are the places you can go,"), NL>> \o places_list
                \o <<NL, COORDS, NL>> \o coords_list
          [] PlacesPath(r) = "empty" ->
                <<A("I couldn't find specific tourist attractions in ")>>
                \o PlaceDisplay(geo)
                \o <<A(" in the database, but it may still be a great place to visit!")>>
          [] PlacesPath(r) = "timeout" ->
                <<A("Tourist places service timed out. Please try again.")>>
          [] PlacesPath(r) = "reqerror" ->
                <<A("Error fetching tourist places: ")>> \o ExcText
          [] OTHER ->
                <<A("Unexpected error getting tourist places: ")>> \o ExcText

----------------------------------------------------------------------------
(* tourism_agent.py: extract_place_name                                    *)
(*                                                                         *)
(* A query is a list of words separated by single spaces.  A word is a     *)
(* prefix that ends in a non-letter (or is empty), a run of letters w, and *)
(* trailing punctuation p: "I'm" is ("I'", "m", ""), "Bangalore," is       *)
(* ("", "Bangalore", ",").  The tables list, for the strings of the        *)
(* vocabulary, what the code's string tests and regular expressions ask.   *)

Tok(pre, w, p) == [pre |-> pre, w |-> w, p |-> p]
W(w) == Tok("", w, "")

\* s[0].isupper()
UpperFirst ==
    {"Bangalore", "Hey", "I", "I'", "In", "London", "Manali", "New",
     "Paris", "Tell", "What", "York"}

\* len(s) == 1
SingleChar ==
    {",", "?", "I", "m", "s"}

\* s.lower()
Lower(s) ==
    CASE s = "Bangalore" -> "bangalore"
      [] s = "Hey" -> "hey"
      [] s = "I" -> "i"
      [] s = "I'" -> "i'"
      [] s = "In" -> "in"
      [] s = "London" -> "london"
      [] s = "Manali" -> "manali"
      [] s = "New" -> "new"
      [] s = "Paris" -> "paris"
      [] s = "Tell" -> "tell"
      [] s = "What" -> "what"
      [] s = "York" -> "york"
      [] OTHER -> s

\* s.capitalize()
Capitalize(s) ==
    CASE s = "about" -> "About"
      [] s = "am" -> "Am"
      [] s = "and" -> "And"
      [] s = "for" -> "For"
      [] s = "go" -> "Go"
      [] s = "going" -> "Going"
      [] s = "hello" -> "Hello"
      [] s = "in" -> "In"
      [] s = "is" -> "Is"
      [] s = "m" -> "M"
      [] s = "me" -> "Me"
      [] s = "paris" -> "Paris"
      [] s = "places" -> "Places"
      [] s = "planning" -> "Planning"
      [] s = "s" -> "S"
      [] s = "temperature" -> "Temperature"
      [] s = "the" -> "The"
      [] s = "there" -> "There"
      [] s = "to" -> "To"
      [] s = "trip" -> "Trip"
      [] s = "visit" -> "Visit"
      [] s = "weather" -> "Weather"
      [] s = "what" -> "What"
      [] OTHER -> s

\* the words ending in "trip", "go" or "going" (any case)
EndsTripGo ==
    {"go", "going", "trip"}

\* the words ending in "visit" or "visiting"
EndsVisit ==
    {"visit"}

\* the words that contain "plan"
HasPlan ==
    {"planning"}

\* the words ending in "to"
EndsTo ==
    {"to"}

\* the word "to"
IsTo ==
    {"to"}

\* the words ending in "in", "at" or "for"
EndsInAtFor ==
    {"In", "What", "for", "in", "what"}

\* the words beginning with "plan"
StartsPlan ==
    {"planning"}

\* the words beginning with "and"
StartsAnd ==
    {"and"}

\* the words beginning with "let"
StartsLet ==
    {}

\* the words beginning with "what"
StartsWhat ==
    {"What", "what"}

\* the words beginning with "temperature"
StartsTemperature ==
    {"temperature"}

\* the words beginning with "weather"
StartsWeather ==
    {"weather"}

\* the words beginning with "places"
StartsPlaces ==
    {"places"}

\* the prefixes beginning with "let"
PreStartsLet ==
    {"let'"}

\* the prefixes beginning with "let'" before an "s..."
PreStartsLets ==
    {"let'"}

\* the words beginning with "s"
StartsS ==
    {"s"}

\* the punctuation beginning with ",", "?", "."
CommaFirst == {","}
QuestionFirst == {"?"}
DotFirst == {"."}
\* the words in which "plan" is followed by a final "to"
PlanThenTo == {}

Opt(s) == IF s = "" THEN <<>> ELSE <<A(s)>>
\* the characters of a word, and of the query
TokText(t) == Opt(t.pre) \o Opt(t.w) \o Opt(t.p)
QueryText(q) == Join([i \in 1..Len(q) |-> TokText(q[i])], A(" "))

\* the first of the pieces of a word
TokFirst(t) == IF t.pre # "" THEN t.pre ELSE IF t.w # "" THEN t.w ELSE t.p
\* word[0].isupper()
TokUpperFirst(t) == TokFirst(t) \in UpperFirst
\* len(word) > 1
TokLong(t) == Len(TokText(t)) > 1 \/ TokFirst(t) \notin SingleChar
\* word.lower() in list (a list of words made of letters)
TokLowerIn(t, list) == t.pre = "" /\ t.p = "" /\ Lower(t.w) \in list

\* the alternatives that end the captured group of pattern pat (1, 2, 3):
\* punctuation right after the group, a word after whitespace, the end
TermPunct(pat, p) ==
    CASE pat = 1 -> p \in CommaFirst
      [] pat = 2 -> p \in CommaFirst \cup QuestionFirst \cup DotFirst
      [] OTHER -> FALSE
TermWord(pat, t) ==
    CASE pat = 1 ->
            \/ t.pre = "" /\ t.w \in StartsPlan \cup StartsAnd
            \/ TokFirst(t) \in CommaFirst
      [] pat = 2 ->
            \/ t.pre = "" /\ t.w \in StartsLet \cup StartsWhat \cup StartsAnd
            \/ t.pre \in PreStartsLet
            \/ TokFirst(t) \in CommaFirst \cup QuestionFirst \cup DotFirst
      [] OTHER ->
            \/ t.pre = "" /\ t.w \in StartsWhat \cup StartsTemperature
                                     \cup StartsWeather \cup StartsPlaces
            \/ t.pre \in PreStartsLets /\ t.w \in StartsS
TermEnd(pat) == pat \in {1, 2}

\* ([A-Z][a-zA-Z\s]+?) followed by its terminator, matched lazily from word
\* k on: the index of the last word of the group, 0 when there is no match.
\* The group holds letters and spaces only and at least two characters.
RECURSIVE GroupEnd(_, _, _, _)
GroupEnd(q, k, pat, first) ==
    IF k > Len(q) THEN 0
    ELSE LET t == q[k]
             short == first /\ t.w \in SingleChar
         IN  IF t.w = "" \/ (t.pre # "" /\ ~(first /\ pat = 3)) THEN 0
             ELSE IF t.p # "" THEN (IF TermPunct(pat, t.p) /\ ~short THEN k ELSE 0)
             ELSE IF k = Len(q) THEN (IF TermEnd(pat) /\ ~short THEN k ELSE 0)
             ELSE IF TermWord(pat, q[k + 1]) /\ ~short THEN k
             ELSE GroupEnd(q, k + 1, pat, FALSE)

\* ' '.join(word.capitalize() for word in place.split()) of the group s..g
GroupPlace(q, s, g) ==
    Join([i \in 1..(g - s + 1) |-> <<A(Capitalize(q[s + i - 1].w))>>], A(" "))

\* pattern 1: the occurrences of (trip to|go(ing)? to|visit(ing)?|plan.*to)\s+
\* after which the group matches: s the word the occurrence starts in, e the
\* word it ends with, alt the alternative
Pattern1Matches(q) ==
    LET n == Len(q)
        tripgo == {[s |-> e - 1, alt |-> 1, e |-> e] : e \in
                     {e \in 2..n : /\ q[e].pre = "" /\ q[e].p = "" /\ q[e].w \in IsTo
                                   /\ q[e - 1].p = "" /\ q[e - 1].w \in EndsTripGo}}
        visit == {[s |-> e, alt |-> 2, e |-> e] : e \in
                     {e \in 1..n : q[e].p = "" /\ q[e].w \in EndsVisit}}
        plan == {[s |-> v[1], alt |-> 3, e |-> v[2]] : v \in
                     {v \in (1..n) \X (1..n) :
                        /\ q[v[1]].w \in HasPlan
                        /\ q[v[2]].p = "" /\ q[v[2]].w \in EndsTo
                        /\ \/ v[2] > v[1]
                           \/ v[2] = v[1] /\ q[v[1]].w \in PlanThenTo}}
    IN  {m \in tripgo \cup visit \cup plan : GroupEnd(q, m.e + 1, 1, TRUE) # 0}

\* re.search takes the leftmost start, there the first alternative that
\* leads to a match, and for the greedy .* the last "to" that does
FirstMatch(ms) ==
    CHOOSE m \in ms : \A o \in ms :
        \/ m.s < o.s
        \/ m.s = o.s /\ m.alt < o.alt
        \/ m.s = o.s /\ m.alt = o.alt /\ m.e >= o.e

\* pattern 2: the occurrences of (in|at|for)\s+ after which the group matches
Pattern2Matches(q) ==
    {e \in 1..Len(q) : /\ q[e].p = "" /\ q[e].w \in EndsInAtFor
                       /\ GroupEnd(q, e + 1, 2, TRUE) # 0}

\* pattern 3: the words at whose run of letters the group matches
Pattern3Matches(q) == {s \in 1..Len(q) : GroupEnd(q, s, 3, TRUE) # 0}

Min(S) == CHOOSE x \in S : \A y \in S : x <= y

\* the fallback: the run of capitalized words from word i on
RECURSIVE CapitalizedRun(_, _)
CapitalizedRun(q, i) ==
    IF i < Len(q) /\ TokUpperFirst(q[i + 1]) THEN CapitalizedRun(q, i + 1) ELSE i

StopWords == {"i", "hey", "what", "and", "the", "is", "are", "am"}

extract_place_name(q) ==
    LET p1 == Pattern1Matches(q)
        p2 == Pattern2Matches(q)
        p3 == Pattern3Matches(q)
        starts == {i \in 1..Len(q) : /\ TokLong(q[i]) /\ TokUpperFirst(q[i])
                                     /\ ~TokLowerIn(q[i], StopWords)}
    IN  IF p1 # {}
        THEN LET m == FirstMatch(p1)
             IN  GroupPlace(q, m.e + 1, GroupEnd(q, m.e + 1, 1, TRUE))
        ELSE IF p2 # {}
        THEN GroupPlace(q, Min(p2) + 1, GroupEnd(q, Min(p2) + 1, 2, TRUE))
        ELSE IF p3 # {}
        THEN GroupPlace(q, Min(p3), GroupEnd(q, Min(p3), 3, TRUE))
        ELSE IF Len(q) <= 3 /\ \A i \in 1..Len(q) :
                    TokUpperFirst(q[i]) \/ TokLowerIn(q[i], {"and", "the"})
        THEN QueryText(q)
        ELSE IF starts # {}
        THEN Join([i \in 1..(CapitalizedRun(q, Min(starts)) - Min(starts) + 1) |->
                        TokText(q[Min(starts) + i - 1])], A(" "))
        ELSE <<>>

----------------------------------------------------------------------------
(* agents/parent_agent.py: TourismAgent.extract_place_name                 *)
(*                                                                         *)
(* The parent agent searches without re.IGNORECASE: its keywords are in    *)
(* lower case and the captured group begins with a capital letter.         *)

\* the words ending in "go" or "going"
EndsGoCased ==
    {"go", "going"}

\* the words ending in "visit" or "visiting"
EndsVisitCased ==
    {"visit"}

\* the words ending in "in", "at" or "for"
EndsInAtForCased ==
    {"What", "for", "in", "what"}

\* the words beginning with "let"
StartsLetCased ==
    {}

\* the words beginning with "what"
StartsWhatCased ==
    {"what"}

\* the words beginning with "and"
StartsAndCased ==
    {"and"}

\* the words beginning with "temperature"
StartsTemperatureCased ==
    {"temperature"}

\* the words beginning with "weather"
StartsWeatherCased ==
    {"weather"}

\* the words beginning with "plan"
StartsPlanCased ==
    {"planning"}

\* the words beginning with "is"
StartsIsCased ==
    {"is"}

\* the prefixes beginning with "let"
PreStartsLetCased ==
    {"let'"}

\* the alternatives that end the captured group of the parent's pattern pat
\* (1, 2): punctuation right after the group, words after whitespace
ParentTermPunct(pat, p) ==
    pat = 1 /\ p \in CommaFirst \cup QuestionFirst \cup DotFirst
ParentTermWord(pat, q, k) ==
    LET t == q[k]
    IN  CASE pat = 1 ->
                \/ t.pre = "" /\ t.w \in StartsLetCased \cup StartsWhatCased
                                         \cup StartsAndCased
                \/ t.pre \in PreStartsLetCased
                \/ TokFirst(t) \in CommaFirst \cup QuestionFirst \cup DotFirst
          [] OTHER ->
                \/ t.pre = "" /\ t.w \in StartsTemperatureCased \cup StartsWeatherCased
                \/ /\ t = Tok("let'", "s", "") /\ k < Len(q)
                   /\ q[k + 1].pre = "" /\ q[k + 1].w \in StartsPlanCased
                \/ /\ t = W("what") /\ k < Len(q)
                   /\ q[k + 1].pre = "" /\ q[k + 1].w \in StartsIsCased

\* ([A-Z][a-zA-Z\s]+?) followed by its terminator, matched lazily from word
\* k on: the index of the last word of the group, 0 when there is no match
RECURSIVE ParentGroupEnd(_, _, _, _)
ParentGroupEnd(q, k, pat, first) ==
    IF k > Len(q) THEN 0
    ELSE LET t == q[k]
             short == first /\ t.w \in SingleChar
         IN  IF t.w = "" \/ (first /\ t.w \notin UpperFirst) THEN 0
             ELSE IF t.pre # "" /\ ~(first /\ pat = 2) THEN 0
             ELSE IF t.p # "" THEN (IF ParentTermPunct(pat, t.p) /\ ~short THEN k ELSE 0)
             ELSE IF k = Len(q) THEN (IF pat = 1 /\ ~short THEN k ELSE 0)
             ELSE IF ParentTermWord(pat, q, k + 1) /\ ~short THEN k
             ELSE ParentGroupEnd(q, k + 1, pat, FALSE)

\* match.group(1).strip() of the group s..g
ParentGroupPlace(q, s, g) ==
    Join([i \in 1..(g - s + 1) |-> <<A(q[s + i - 1].w)>>], A(" "))

\* pattern 1: the occurrences of (go(ing)? to|visit(ing)?|in|at|for)\s+ after
\* which the group matches: s the word the occurrence starts in, e the word
\* it ends with
ParentPattern1Matches(q) ==
    LET n == Len(q)
        goto == {[s |-> e - 1, e |-> e] : e \in
                    {e \in 2..n : /\ q[e] = W("to")
                                  /\ q[e - 1].p = "" /\ q[e - 1].w \in EndsGoCased}}
        single == {[s |-> e, e |-> e] : e \in
                    {e \in 1..n : /\ q[e].p = ""
                                  /\ q[e].w \in EndsVisitCased \cup EndsInAtForCased}}
    IN  {m \in goto \cup single : ParentGroupEnd(q, m.e + 1, 1, TRUE) # 0}

\* pattern 2: the words at whose run of letters the group matches
ParentPattern2Matches(q) == {s \in 1..Len(q) : ParentGroupEnd(q, s, 2, TRUE) # 0}

\* the fallback: the run from word i on of capitalized words, "and", "the"
RECURSIVE ParentCapitalizedRun(_, _)
ParentCapitalizedRun(words, i) ==
    IF i < Len(words) /\ (\/ TokUpperFirst(words[i + 1])
                          \/ TokLowerIn(words[i + 1], {"and", "the"}))
    THEN ParentCapitalizedRun(words, i + 1) ELSE i

ParentStopWords == {"i", "what", "and", "the"}

TourismAgent_extract_place_name(q) ==
    LET p1 == ParentPattern1Matches(q)
        p2 == ParentPattern2Matches(q)
        words == SelectSeq(q, LAMBDA t : TokText(t) # <<>>)
        starts == {i \in 1..Len(words) : /\ TokUpperFirst(words[i])
                                         /\ ~TokLowerIn(words[i], ParentStopWords)}
    IN  IF p1 # {}
        THEN LET m == CHOOSE m \in p1 : \A o \in p1 : m.s <= o.s
             IN  ParentGroupPlace(q, m.e + 1, ParentGroupEnd(q, m.e + 1, 1, TRUE))
        ELSE IF p2 # {}
        THEN ParentGroupPlace(q, Min(p2), ParentGroupEnd(q, Min(p2), 2, TRUE))
        ELSE IF starts # {}
        THEN Join([i \in 1..(ParentCapitalizedRun(words, Min(starts)) - Min(starts) + 1) |->
                        TokText(words[Min(starts) + i - 1])], A(" "))
        ELSE <<>>

\* not user_query or not user_query.strip()
IsBlank(q) == QueryText(q) = <<>> \/ Strip(QueryText(q)) = <<>>

\* a user_query that is not a str (the int 5): no text has this form, the
\* prefix of a word ends in a non-letter
NotAString == <<Tok("int", "", "")>>
\* what user_query.strip() raises for it
NotAStringError == <<A("'int' object has no attribute 'strip'")>>

\* the queries run is called with: "", " ", "Paris", ...
Queries == {
    <<>>,
    <<W(""), W("")>>,
    NotAString,
    <<W("Paris")>>,
    <<W("hello"), W("there")>>,
    <<W("weather"), W("in"), W("New"), W("York")>> }

----------------------------------------------------------------------------
(* tourism_agent.py: determine_intent; agents/parent_agent.py: the routing *)
(*                                                                         *)
(* A keyword is made of letters, so it occurs in the lower-cased query     *)
(* when it occurs in one of the pieces of one of its words.                *)

\* the pieces of words whose lower case contains one of weather_kw
HasWeatherKw ==
    {"temperature", "weather"}

\* the pieces of words whose lower case contains one of places_kw
HasPlacesKw ==
    {"go", "going", "places", "planning", "trip", "visit"}

\* the pieces whose lower case contains one of WeatherAgent's weather_keywords
HasWeatherKeyword ==
    {"temperature", "weather"}

\* the pieces whose lower case contains one of PlacesAgent's places_keywords
HasPlacesKeyword ==
    {"go", "going", "places", "trip", "visit"}

\* any(kw in query_lower for kw in keywords), by the table of the keywords
AnyKeyword(q, holders) ==
    \E i \in 1..Len(q) : {q[i].pre, q[i].w, q[i].p} \cap holders # {}

DefaultPlaces_never(needs_weather, needs_places) == needs_places

\* if not needs_weather and not needs_places: needs_places = True
DefaultPlaces(needs_weather, needs_places) ==
    IF ~needs_weather /\ ~needs_places THEN TRUE ELSE needs_places

determine_intent(q) ==
    LET needs_weather == AnyKeyword(q, HasWeatherKw)
        needs_places == AnyKeyword(q, HasPlacesKw)
    IN  [weather |-> needs_weather,
         places |-> DefaultPlaces(needs_weather, needs_places)]

\* TourismAgent.run, lines 73-79: the child agents that are invoked
ParentRouting(q) ==
    LET needs_weather == AnyKeyword(q, HasWeatherKeyword)
        needs_places == AnyKeyword(q, HasPlacesKeyword)
    IN  [weather |-> needs_weather,
         places |-> DefaultPlaces(needs_weather, needs_places)]

MaxWords == 3    \* the longest query the two functions are applied to on their own

\* the words of those queries
ClassifyWords ==
    {W("Paris"), W("Tell"), W("me"), W("about"), W("what"), W("weather"),
     W("trip"), W("planning")}

RECURSIVE SeqsUpTo(_, _)
SeqsUpTo(S, n) ==
    IF n = 0 THEN {<<>>}
    ELSE LET shorter == SeqsUpTo(S, n - 1)
         IN  shorter \cup {Append(q, x) : q \in shorter, x \in S}

\* queries of the form "... going to go to X, ...", the second of
\* test_agents.py among them
GoingToQueries == {
    <<Tok("I'", "m", ""), W("going"), W("to"), W("go"), W("to"),
      Tok("", "Bangalore", ","), W("what"), W("is"), W("the"),
      W("temperature"), W("there")>>,
    <<W("going"), W("to"), W("go"), W("to"), Tok("", "Paris", ","),
      W("what"), W("is"), W("the"), W("weather")>>,
    <<Tok("I'", "m", ""), W("going"), W("to"), W("go"), W("to"), W("New"),
      Tok("", "York", ","), W("what"), W("is"), W("the"), W("temperature")>>,
    <<Tok("I'", "m", ""), W("going"), W("to"), W("go"), W("to"),
      Tok("", "Manali", ","), W("hello"), W("there")>> }

ClassifyQueries == (SeqsUpTo(ClassifyWords, MaxWords) \ {<<>>}) \cup GoingToQueries

----------------------------------------------------------------------------
(* schemas.py                                                              *)

\* TourismResponse(place=, success=, message=, error=) with the defaults of
\* the other fields
TourismResponse(place, success, message, error) ==
    [place |-> place, has_weather |-> FALSE, has_places |-> FALSE,
     latitude |-> None, longitude |-> None,
     temperature |-> None, precipitation_chance |-> None,
     attractions |-> None, attractions_with_coords |-> None,
     message |-> message, success |-> success, error |-> error]

----------------------------------------------------------------------------
(* tourism_agent.py: TourismAgentWithTools.run                             *)

\* the response run builds after its own geocoding call
RunResponse(name, geo) ==
    [TourismResponse(name, TRUE, <<>>, None) EXCEPT
        !.has_weather = TRUE, !.has_places = TRUE,
        !.latitude = IF geo.success THEN geo.latitude ELSE None,
        !.longitude = IF geo.success THEN geo.longitude ELSE None]

\* weather_result passes for a weather sentence
IsWeatherSentence(wr) == Contains(wr, HasDegC) /\ Contains(wr, HasCurrently)
\* "don't know" in result.lower()
IsDontKnow(result) == Contains(result, HasDontKnowLower)

WeatherAbort_noReturn(resp, wr) ==
    [response |-> [resp EXCEPT !.success = FALSE, !.error = Some(wr)],
     parts |-> <<>>, returned |-> FALSE]
WeatherAbort_fresh(resp, wr) ==
    [response |-> TourismResponse(resp.place, FALSE, <<>>, Some(wr)),
     parts |-> <<>>, returned |-> TRUE]
\* the "don't know" branch: the response is marked failed and returned
WeatherAbort(resp, wr) ==
    [response |-> [resp EXCEPT !.success = FALSE, !.error = Some(wr)],
     parts |-> <<>>, returned |-> TRUE]

WeatherIgnored_fails(resp, wr) ==
    [response |-> [resp EXCEPT !.success = FALSE, !.error = Some(wr)],
     parts |-> <<wr>>, returned |-> FALSE]
\* no branch matches weather_result: nothing is done with it
WeatherIgnored(resp, wr) ==
    [response |-> resp, parts |-> <<>>, returned |-> FALSE]

\* the branches on weather_result: the response, the message parts added and
\* whether run returns there
WeatherStep(resp, wr) ==
    IF IsWeatherSentence(wr)
    THEN LET temp_match == SearchDigitsBefore(wr, StartsWithDegC)
             precip_match == SearchDigitsBefore(wr, StartsWithPercent)
         IN  [response |-> [resp EXCEPT
                    !.temperature = IF temp_match # None THEN temp_match ELSE @,
                    !.precipitation_chance = IF precip_match # None THEN precip_match ELSE @],
              parts |-> <<wr>>, returned |-> FALSE]
    ELSE IF IsDontKnow(wr) THEN WeatherAbort(resp, wr)
    ELSE WeatherIgnored(resp, wr)

\* [line.strip() for line in lines if line.strip()]
StrippedLines(lines) ==
    SelectSeq([i \in 1..Len(lines) |-> Strip(lines[i])], LAMBDA l : l # <<>>)

\* the loop over coords_lines: a line without "|", with another number of
\* fields than three or with a field float() rejects adds nothing
RECURSIVE ParseCoords(_)
ParseCoords(coords_lines) ==
    IF coords_lines = <<>> THEN <<>>
    ELSE LET coord_line == Head(coords_lines)
             fields == Split(coord_line, BAR)
             rest == ParseCoords(Tail(coords_lines))
         IN  IF BAR \in Range(coord_line) /\ Len(fields) = 3
                /\ ParseNumber(fields[2]) # None /\ ParseNumber(fields[3]) # None
             THEN <<[name |-> Strip(fields[1]),
                     latitude |-> ParseNumber(fields[2])[1],
                     longitude |-> ParseNumber(fields[3])[1]]>> \o rest
             ELSE rest

\* places_result passes for a list of attractions
IsPlacesList(pr) == Contains(pr, HasPlacesPhrase)

PlacesAbort_noError(resp, pr) ==
    [response |-> [resp EXCEPT !.success = FALSE],
     parts |-> <<>>, returned |-> TRUE]
\* the "don't know" branch of the places step
PlacesAbort(resp, pr) ==
    [response |-> [resp EXCEPT !.success = FALSE, !.error = Some(pr)],
     parts |-> <<>>, returned |-> TRUE]

\* no branch matches places_result
PlacesIgnored(resp, pr) ==
    [response |-> resp, parts |-> <<>>, returned |-> FALSE]

PlacesNone_dropped(resp, pr) ==
    [response |-> resp, parts |-> <<>>, returned |-> FALSE]

\* the "couldn't find" branch: an empty list of attractions
PlacesNone(resp, pr) ==
    [response |-> [resp EXCEPT !.attractions = Some(<<>>)],
     parts |-> <<pr>>, returned |-> FALSE]

\* the branches on places_result
PlacesStep(resp, pr) ==
    IF IsPlacesList(pr)
    THEN LET parts == Split(pr, COORDS)
             main_text == parts[1]
             lines == Tail(Split(main_text, NL))
         IN  [response |-> [resp EXCEPT
                    !.attractions = Some(StrippedLines(lines)),
                    !.attractions_with_coords =
                        IF Len(parts) > 1
                        THEN Some(ParseCoords(Split(Strip(parts[2]), NL)))
                        ELSE @],
              parts |-> <<Strip(main_text)>>, returned |-> FALSE]
    ELSE IF IsDontKnow(pr) THEN PlacesAbort(resp, pr)
    ELSE IF Contains(pr, HasCouldntFindLower) THEN PlacesNone(resp, pr)
    ELSE PlacesIgnored(resp, pr)

ComposeMessage_reversed(parts, name) ==
    IF Len(parts) = 2 THEN parts[2] \o <<A(" And ")>> \o parts[1]
    ELSE IF Len(parts) = 1 THEN parts[1]
    ELSE <<A("Information for ")>> \o name

\* "Combine messages"
ComposeMessage(parts, name) ==
    IF Len(parts) = 2 THEN parts[1] \o <<A(" And ")>> \o parts[2]
    ELSE IF Len(parts) = 1 THEN parts[1]
    ELSE <<A("Information for ")>> \o name

NextStep_placesFirst(step) ==
    CASE step = "geocode" -> "places"
      [] step = "places" -> "weather"
      [] OTHER -> "compose"

\* the order of run's steps: the step that follows each one
NextStep(step) ==
    CASE step = "geocode" -> "weather"
      [] step = "weather" -> "places"
      [] OTHER -> "compose"

\* the first position inside a step
EnterPc(step) == IF step = "weather" THEN "weather_geocode" ELSE "places_geocode"

\* an exception that reaches run's try block: the one a query that is not a
\* str raises, or one an invoke raises
Exceptions == {ExcText, <<A("maximum recursion depth exceeded")>>, <<>>}
Raise(text) == [kind |-> "raise", text |-> text]

ExceptResponse_noPlace(name, text) ==
    TourismResponse(<<A("Unknown")>>, FALSE,
        <<A("I encountered an error processing your request.")>>, Some(text))

\* the except clause of run, lines 276-282; an unbound place_name is <<>>
ExceptResponse(name, text) ==
    TourismResponse(IF name # <<>> THEN name ELSE <<A("Unknown")>>, FALSE,
        <<A("I encountered an error processing your request.")>>, Some(text))

EmptyQueryResponse_passes ==
    TourismResponse(<<A("Unknown")>>, TRUE,
        <<A("Please provide a query or place name.")>>, None)

\* lines 175-180
EmptyQueryResponse ==
    TourismResponse(<<A("Unknown")>>, FALSE,
        <<A("Please provide a query or place name.")>>,
        Some(<<A("Empty query")>>))

NoPlaceResponse_raises ==
    ExceptResponse(<<>>, <<A("string index out of range")>>)

\* lines 186-191
NoPlaceResponse ==
    TourismResponse(<<A("Unknown")>>, FALSE,
        <<A("I couldn't identify which place you're asking about. Please mention a place name.")>>,
        Some(<<A("No place name found in query")>>))

NewMessageParts_shared == IF earlier = None THEN <<>> ELSE earlier[1].message_parts

\* message_parts = [] (line 207): a new list in every call
NewMessageParts == <<>>

\* the answers a service can give now: any, or, in a call that repeats an
\* earlier one, the answer it gave at this point of the earlier call
Allowed(S) ==
    IF earlier = None THEN S
    ELSE {r \in S : /\ Len(answers) < Len(earlier[1].answers)
                    /\ r = earlier[1].answers[Len(answers) + 1]}

\* the queries run can be called with now
AllowedQueries == IF earlier = None THEN Queries ELSE {earlier[1].user_query}

\* the calls each step makes, in order
RunGeocodeCalls == <<"run:get_coordinates", "GET nominatim", "run:get_coordinates:return">>
WeatherGeocodeCalls_reuse == <<"get_weather">>
WeatherGeocodeCalls == <<"get_weather", "GET nominatim">>
WeatherFetchCalls == <<"GET open-meteo">>
WeatherReturnCalls == <<"get_weather:return">>
PlacesGeocodeCalls == <<"get_tourist_places", "GET nominatim">>
PlacesFetchCalls == <<"POST overpass">>
PlacesReturnCalls == <<"get_tourist_places:return">>

----------------------------------------------------------------------------
(* main.py: plan_trip                                                      *)

\* os.getenv("mistral_api_key"): unset, "", " ", a key
Keys == {None, Some(<<>>), Some(<<A(" ")>>), Some(<<A("sk-test")>>)}

KeyMissing_unsetOnly(key) == key = None

\* not os.getenv(k) or os.getenv(k).strip() == ""
KeyMissing(key) == key = None \/ key[1] = <<>> \/ Strip(key[1]) = <<>>

\* request.query: TripRequest declares it a str
RequestQueries == Queries \ {NotAString}

\* ChatResponse(response=, success=, error=) with the defaults of the rest
ChatResponse(message, success, error) ==
    [response |-> message, success |-> success, error |-> error,
     place |-> None, has_weather |-> None, has_places |-> None,
     latitude |-> None, longitude |-> None,
     temperature |-> None, precipitation_chance |-> None,
     attractions |-> None, attractions_with_coords |-> None]

\* lines 135-139
ConfigErrorResponse ==
    ChatResponse(<<A("The API is not properly configured. Please contact the administrator.")>>,
                 FALSE,
                 Some(<<A("Missing mistral_api_key environment variable. Please configure it in Railway.")>>))

\* lines 148-167: the ChatResponse made of run's result
ChatResponseOf(result) ==
    [response |-> result.message, success |-> result.success,
     error |-> result.error,
     place |-> Some(result.place),
     has_weather |-> Some(result.has_weather),
     has_places |-> Some(result.has_places),
     latitude |-> result.latitude, longitude |-> result.longitude,
     temperature |-> result.temperature,
     precipitation_chance |-> result.precipitation_chance,
     attractions |-> result.attractions,
     attractions_with_coords |->
        IF result.attractions_with_coords \in {None, Some(<<>>)}
        THEN None ELSE result.attractions_with_coords]

\* HTTPException(status_code=400, detail="Query cannot be empty")
EmptyQueryException ==
    [status_code |-> 400, detail |-> <<A("Query cannot be empty")>>]
\* str(e) of it: "400: Query cannot be empty" where the installed framework
\* defines HTTPException.__str__, "" where it does not
ExceptionTexts(e) == {<<D(e.status_code), A(": ")>> \o e.detail, <<>>}

\* lines 169-174: the except clause of plan_trip
CaughtResponse(text) ==
    ChatResponse(<<A("I apologize, but I encountered an error processing your request.")>>,
                 FALSE, Some(text))

\* what the client receives: the status and the body
Reply(status, body) == [status |-> status, body |-> body]
\* a value plan_trip returns is sent with status 200
Returns(chat) == Reply(200, chat)

WebIdle == [state |-> "idle", key |-> None, query |-> <<>>,
            invoked |-> FALSE, reply |-> None]

----------------------------------------------------------------------------
(* agents/parent_agent.py: TourismAgent.run, and the child agents          *)

\* the queries the parent agent is run with: "", "hello there", "Paris",
\* "visit Paris", "weather in New York", "weather and places in Paris" and
\* the second query of test_agents.py
ParentQueries == {
    <<>>,
    <<W("hello"), W("there")>>,
    <<W("Paris")>>,
    <<W("visit"), W("Paris")>>,
    <<W("weather"), W("in"), W("New"), W("York")>>,
    <<W("weather"), W("and"), W("places"), W("in"), W("Paris")>>,
    <<Tok("I'", "m", ""), W("going"), W("to"), W("go"), W("to"),
      Tok("", "Bangalore", ","), W("what"), W("is"), W("the"),
      W("temperature"), W("there")>> }

\* lines 70-71
ParentNoPlaceReply ==
    <<A("I couldn't identify which place you're asking about. Could you please specify the location?")>>

\* WeatherAgent.run(place_name): what get_weather returns for the answers of
\* the services, or the message for an exception invoke raises
WeatherAgentReplies(name) ==
    {IF get_coordinates(name, g).success
     THEN WeatherText(get_coordinates(name, g), r)
     ELSE DontKnowPlace(name, get_coordinates(name, g)) :
        g \in GeoResponses, r \in WeatherResponses}
    \cup {<<A("Error getting weather information: ")>> \o text : text \in Exceptions}

\* PlacesAgent.run(place_name)
PlacesAgentReplies(name) ==
    {IF get_coordinates(name, g).success
     THEN PlacesText(get_coordinates(name, g), r)
     ELSE DontKnowPlace(name, get_coordinates(name, g)) :
        g \in GeoResponses, r \in PlacesResponses}
    \cup {<<A("Error getting tourist places: ")>> \o text : text \in Exceptions}

\* s.split(sep)[1] for a sep that occurs in s: what lies between its first
\* and its second occurrence
RECURSIVE UpToSep(_, _)
UpToSep(s, sep) ==
    IF Len(s) < Len(sep) THEN s
    ELSE IF SubSeq(s, 1, Len(sep)) = sep THEN <<>>
    ELSE <<Head(s)>> \o UpToSep(Tail(s), sep)
RECURSIVE AfterSep(_, _)
AfterSep(s, sep) ==
    IF SubSeq(s, 1, Len(sep)) = sep THEN SubSeq(s, Len(sep) + 1, Len(s))
    ELSE AfterSep(Tail(s), sep)
SecondPiece(s, sep) == UpToSep(AfterSep(s, sep), sep)

\* lines 93-98: the answer made of the replies of the child agents
ParentCombine(responses, name) ==
    IF Len(responses) = 1 THEN responses[1]
    ELSE responses[1] \o <<A(" And ")>>
         \o (IF IsInfix(name, responses[2])
             THEN SecondPiece(responses[2], name) ELSE responses[2])

ParentNext_placesFirst(step, needs_weather, needs_places) ==
    CASE step = "begin" -> IF needs_places THEN "places" ELSE "weather"
      [] step = "places" -> IF needs_weather THEN "weather" ELSE "done"
      [] OTHER -> "done"

\* lines 81-91: the child agent that is run after `step`
ParentNext(step, needs_weather, needs_places) ==
    CASE step = "begin" -> IF needs_weather THEN "weather" ELSE "places"
      [] step = "weather" -> IF needs_places THEN "places" ELSE "done"
      [] OTHER -> "done"

ParentIdle == [pc |-> "idle", user_query |-> <<>>, place_name |-> <<>>,
               needs_weather |-> FALSE, needs_places |-> FALSE,
               responses |-> <<>>, invoked |-> <<>>, result |-> None]

Init ==
    /\ pc = "idle"
    /\ user_query = <<>>
    /\ place_name = <<>>
    /\ geo_result = None
    /\ response = None
    /\ message_parts = <<>>
    /\ weather_result = None
    /\ places_result = None
    /\ tool_geo = None
    /\ w_path = "none"
    /\ p_path = "none"
    /\ calls = <<>>
    /\ answers = <<>>
    /\ earlier = None
    /\ classified = None
    /\ web = WebIdle
    /\ parent = ParentIdle

\* what follows a step's branches: run returns there, or composes the message
\* and returns after the last step, or goes on to the next step
Advance(step, st) ==
    /\ message_parts' = message_parts \o st.parts
    /\ IF st.returned
       THEN pc' = "done" /\ response' = Some(st.response)
       ELSE IF NextStep(step) = "compose"
       THEN /\ pc' = "done"
            /\ response' = Some([st.response EXCEPT
                   !.message = ComposeMessage(message_parts \o st.parts, place_name)])
       ELSE pc' = EnterPc(NextStep(step)) /\ response' = Some(st.response)

\* get_weather returned wr by the return statement `path`
WeatherReturn(wr, path) ==
    /\ weather_result' = Some(wr)
    /\ w_path' = path
    /\ tool_geo' = None
    /\ Advance("weather", WeatherStep(response[1], wr))

\* get_tourist_places returned pr by the return statement `path`
PlacesReturn(pr, path) ==
    /\ places_result' = Some(pr)
    /\ p_path' = path
    /\ tool_geo' = None
    /\ Advance("places", PlacesStep(response[1], pr))

\* run, lines 173-191: the empty query, the extraction of the place name
RunBegin ==
    /\ pc = "idle"
    /\ parent.pc = "idle"
    /\ web.state \in {"idle", "running"}
    /\ \E q \in AllowedQueries :
        /\ web.state = "running" => q = web.query
        /\ user_query' = q
        /\ IF q = NotAString
           THEN /\ place_name' = <<>>
                /\ pc' = "done"
                /\ answers' = <<Raise(NotAStringError)>>
                /\ response' = Some(ExceptResponse(<<>>, NotAStringError))
           ELSE IF IsBlank(q)
           THEN /\ place_name' = <<>>
                /\ pc' = "done"
                /\ answers' = <<>>
                /\ response' = Some(EmptyQueryResponse)
           ELSE IF extract_place_name(q) = <<>>
           THEN /\ place_name' = <<>>
                /\ pc' = "done"
                /\ answers' = <<>>
                /\ response' = Some(NoPlaceResponse)
           ELSE /\ place_name' = extract_place_name(q)
                /\ pc' = "geocode"
                /\ answers' = <<>>
                /\ response' = None
    /\ classified' = None
    /\ UNCHANGED <<geo_result, message_parts, weather_result, places_result,
                   tool_geo, w_path, p_path, calls, earlier,
                   web, parent>>

\* run, lines 195-207: its own geocoding call and the response it initialises
RunGeocode ==
    /\ pc = "geocode"
    /\ \E r \in Allowed(GeoResponses) :
        LET geo == get_coordinates(place_name, r)
        IN  /\ geo_result' = Some(geo)
            /\ response' = Some(RunResponse(place_name, geo))
            /\ answers' = Append(answers, r)
    /\ message_parts' = NewMessageParts
    /\ calls' = calls \o RunGeocodeCalls
    /\ pc' = EnterPc(NextStep("geocode"))
    /\ UNCHANGED <<user_query, place_name, weather_result, places_result,
                   tool_geo, w_path, p_path, earlier, classified,
                   web, parent>>

\* get_weather, lines 31-38: its geocoding call; run's branches on the string
\* it returns when that call fails
WeatherGeocode ==
    /\ pc = "weather_geocode"
    /\ \E r \in Allowed(GeoResponses) :
        LET geo == get_coordinates(place_name, r)
        IN  /\ answers' = Append(answers, r)
            /\ IF geo.success
               THEN /\ tool_geo' = Some(geo)
                    /\ pc' = "weather_fetch"
                    /\ calls' = calls \o WeatherGeocodeCalls
                    /\ UNCHANGED <<response, message_parts, weather_result, w_path>>
               ELSE /\ calls' = calls \o WeatherGeocodeCalls \o WeatherReturnCalls
                    /\ WeatherReturn(DontKnowPlace(place_name, geo), "geo_fail")
    /\ UNCHANGED <<user_query, place_name, geo_result, places_result, p_path,
                   earlier, classified,
                   web, parent>>

\* get_weather, lines 40-74: the forecast request; run's branches on the
\* string it returns
WeatherFetch ==
    /\ pc = "weather_fetch"
    /\ calls' = calls \o WeatherFetchCalls \o WeatherReturnCalls
    /\ \E r \in Allowed(WeatherResponses) :
        /\ answers' = Append(answers, r)
        /\ WeatherReturn(WeatherText(tool_geo[1], r), WeatherPath(r))
    /\ UNCHANGED <<user_query, place_name, geo_result, places_result, p_path,
                   earlier, classified,
                   web, parent>>

\* get_tourist_places, lines 36-43: its geocoding call
PlacesGeocode ==
    /\ pc = "places_geocode"
    /\ \E r \in Allowed(GeoResponses) :
        LET geo == get_coordinates(place_name, r)
        IN  /\ answers' = Append(answers, r)
            /\ IF geo.success
               THEN /\ tool_geo' = Some(geo)
                    /\ pc' = "places_fetch"
                    /\ calls' = calls \o PlacesGeocodeCalls
                    /\ UNCHANGED <<response, message_parts, places_result, p_path>>
               ELSE /\ calls' = calls \o PlacesGeocodeCalls \o PlacesReturnCalls
                    /\ PlacesReturn(DontKnowPlace(place_name, geo), "geo_fail")
    /\ UNCHANGED <<user_query, place_name, geo_result, weather_result, w_path,
                   earlier, classified,
                   web, parent>>

\* get_tourist_places, lines 45-118: the map-data request
PlacesFetch ==
    /\ pc = "places_fetch"
    /\ calls' = calls \o PlacesFetchCalls \o PlacesReturnCalls
    /\ \E r \in Allowed(PlacesResponses) :
        /\ answers' = Append(answers, r)
        /\ PlacesReturn(PlacesText(tool_geo[1], r), PlacesPath(r))
    /\ UNCHANGED <<user_query, place_name, geo_result, weather_result, w_path,
                   earlier, classified,
                   web, parent>>

\* an invoke of run (lines 195, 210, 228) raises: the except clause of run
InvokeRaises ==
    /\ pc \in {"geocode", "weather_geocode", "places_geocode"}
    /\ \E e \in Allowed({Raise(text) : text \in Exceptions}) :
        /\ answers' = Append(answers, e)
        /\ response' = Some(ExceptResponse(place_name, e.text))
    /\ pc' = "done"
    /\ UNCHANGED <<user_query, place_name, geo_result, message_parts,
                   weather_result, places_result, tool_geo, w_path, p_path,
                   calls, earlier, classified,
                   web, parent>>

\* extract_place_name and determine_intent applied on their own to a query,
\* and the routing of the parent agent for it (one application is recorded)
Classify ==
    /\ pc = "idle"
    /\ classified = None
    /\ web.state = "idle"
    /\ parent.pc = "idle"
    /\ \E q \in ClassifyQueries :
        classified' = Some([query |-> q,
                            place |-> extract_place_name(q),
                            parent_place |-> TourismAgent_extract_place_name(q),
                            intent |-> determine_intent(q),
                            routing |-> ParentRouting(q)])
    /\ UNCHANGED <<pc, user_query, place_name, geo_result, response,
                   message_parts, weather_result, places_result, tool_geo,
                   w_path, p_path, calls, answers, earlier,
                   web, parent>>

\* run's frame is dropped: its locals are gone
Unwind ==
    /\ pc' = "idle"
    /\ user_query' = <<>>
    /\ place_name' = <<>>
    /\ geo_result' = None
    /\ response' = None
    /\ message_parts' = <<>>
    /\ weather_result' = None
    /\ places_result' = None
    /\ tool_geo' = None
    /\ w_path' = "none"
    /\ p_path' = "none"
    /\ calls' = <<>>
    /\ answers' = <<>>
    /\ classified' = None

\* the caller takes the response; the next call of run starts from nothing
Return ==
    /\ pc = "done"
    /\ web.state = "idle"
    /\ Unwind
    /\ earlier' = None
    /\ UNCHANGED <<web, parent>>

\* the caller takes the response and calls run again with the same query,
\* the services answering as they did
ReturnThenRepeat ==
    /\ pc = "done"
    /\ earlier = None
    /\ Unwind
    /\ earlier' = Some([user_query |-> user_query, answers |-> answers,
                      response |-> response[1], message_parts |-> message_parts])
    /\ UNCHANGED <<web, parent>>

\* plan_trip, lines 132-146: the credential and the query are tested; the
\* pipeline is created and run for a query that passes
PlanTrip ==
    /\ pc = "idle"
    /\ web.state = "idle"
    /\ parent.pc = "idle"
    /\ classified = None
    /\ earlier = None
    /\ \E key \in Keys, q \in RequestQueries :
        IF KeyMissing(key)
        THEN web' = [state |-> "replied", key |-> key, query |-> q,
                     invoked |-> FALSE,
                     reply |-> Some(Returns(ConfigErrorResponse))]
        ELSE IF IsBlank(q)
        THEN \E text \in ExceptionTexts(EmptyQueryException) :
                web' = [state |-> "replied", key |-> key, query |-> q,
                        invoked |-> FALSE,
                        reply |-> Some(Returns(CaughtResponse(text)))]
        ELSE web' = [state |-> "running", key |-> key, query |-> q,
                     invoked |-> TRUE, reply |-> None]
    /\ UNCHANGED run_vars
    /\ UNCHANGED parent

\* plan_trip, lines 146-167: run has returned its result
PlanTripReturn ==
    /\ pc = "done"
    /\ web.state = "running"
    /\ web' = [web EXCEPT !.state = "replied",
                          !.reply = Some(Returns(ChatResponseOf(response[1])))]
    /\ Unwind
    /\ earlier' = None
    /\ UNCHANGED parent

\* the reply is sent to the client
Deliver ==
    /\ web.state = "replied"
    /\ web' = WebIdle
    /\ UNCHANGED run_vars
    /\ UNCHANGED parent

\* TourismAgent.run, lines 66-79: the place name and the child agents needed
ParentBegin ==
    /\ pc = "idle"
    /\ web.state = "idle"
    /\ parent.pc = "idle"
    /\ classified = None
    /\ earlier = None
    /\ \E q \in ParentQueries :
        LET name == TourismAgent_extract_place_name(q)
            route == ParentRouting(q)
        IN  IF name = <<>>
            THEN parent' = [ParentIdle EXCEPT !.pc = "done", !.user_query = q,
                                              !.result = Some(ParentNoPlaceReply)]
            ELSE parent' = [ParentIdle EXCEPT
                                !.pc = ParentNext("begin", route.weather, route.places),
                                !.user_query = q, !.place_name = name,
                                !.needs_weather = route.weather,
                                !.needs_places = route.places]
    /\ UNCHANGED run_vars
    /\ UNCHANGED web

\* what follows the reply of a child agent: the next child agent, or the
\* answer is composed and returned
ParentAdvance(agent, step, reply) ==
    LET responses == Append(parent.responses, reply)
        next == ParentNext(step, parent.needs_weather, parent.needs_places)
    IN  parent' = [parent EXCEPT
                      !.pc = next,
                      !.responses = responses,
                      !.invoked = Append(@, [agent |-> agent, reply |-> reply]),
                      !.result = IF next = "done"
                                 THEN Some(ParentCombine(responses, parent.place_name))
                                 ELSE None]

\* lines 84-86: the weather agent is run
ParentWeather ==
    /\ parent.pc = "weather"
    /\ \E reply \in WeatherAgentReplies(parent.place_name) :
        ParentAdvance("weather_agent", "weather", reply)
    /\ UNCHANGED run_vars
    /\ UNCHANGED web

\* lines 89-91: the places agent is run
ParentPlaces ==
    /\ parent.pc = "places"
    /\ \E reply \in PlacesAgentReplies(parent.place_name) :
        ParentAdvance("places_agent", "places", reply)
    /\ UNCHANGED run_vars
    /\ UNCHANGED web

\* the caller takes the answer
ParentReturn ==
    /\ parent.pc = "done"
    /\ parent' = ParentIdle
    /\ UNCHANGED run_vars
    /\ UNCHANGED web

Next ==
    \/ RunBegin
    \/ RunGeocode
    \/ WeatherGeocode
    \/ WeatherFetch
    \/ PlacesGeocode
    \/ PlacesFetch
    \/ InvokeRaises
    \/ Classify
    \/ Return
    \/ PlanTrip
    \/ PlanTripReturn
    \/ Deliver
    \/ ParentBegin
    \/ ParentWeather
    \/ ParentPlaces
    \/ ParentReturn

Spec == Init /\ [][Next]_vars

\* the same with callers that repeat a call
NextTwice ==
    \/ RunBegin
    \/ RunGeocode
    \/ WeatherGeocode
    \/ WeatherFetch
    \/ PlacesGeocode
    \/ PlacesFetch
    \/ InvokeRaises
    \/ ReturnThenRepeat
    \/ Return

SpecTwice == Init /\ [][NextTwice]_vars

----------------------------------------------------------------------------
(* Properties of run                                                       *)

\* run ended in its except clause
Raised == answers # <<>> /\ answers[Len(answers)].kind = "raise"
\* run returned a response
Returned == pc = "done"
\* run returned a response by a return statement of its try block
Done == pc = "done" /\ ~Raised
Count(seq, x) == Cardinality({i \in 1..Len(seq) : seq[i] = x})
GeocodingCalls == Count(calls, "GET nominatim")
\* run has made its own geocoding call (a place name was extracted)
Geocoded == geo_result # None
\* the lookup of the places step has returned
PlacesRan == places_result # None
\* run went through both steps and composed the message
Composed == Done /\ PlacesRan /\ response[1].success

\* C1: whenever run's own geocoding call fails, the response run returns has
\* success = false and a non-null error.
C1_GeocodeFailureFails ==
    (Done /\ Geocoded /\ ~geo_result[1].success)
        => (~response[1].success /\ response[1].error # None)

C3_SentinelAborts ==
    /\ (weather_result # None /\ IsDontKnow(weather_result[1])) =>
            /\ Done /\ ~response[1].success
            /\ response[1].error = Some(weather_result[1])
            /\ ~PlacesRan /\ Count(calls, "get_tourist_places") = 0
    /\ (places_result # None /\ IsDontKnow(places_result[1])) =>
            /\ Done /\ ~response[1].success
            /\ response[1].error = Some(places_result[1])

\* C3 amended: the sentinel aborts the run when the result is not taken by
\* the branch tested before it: a weather result that is not a weather
\* sentence, a places result that is not a list of attractions.
C3_SentinelAbortsUnlessTaken ==
    /\ (weather_result # None /\ IsDontKnow(weather_result[1])
            /\ ~IsWeatherSentence(weather_result[1])) =>
            /\ Done /\ ~response[1].success
            /\ response[1].error = Some(weather_result[1])
            /\ ~PlacesRan /\ Count(calls, "get_tourist_places") = 0
    /\ (places_result # None /\ IsDontKnow(places_result[1])
            /\ ~IsPlacesList(places_result[1])) =>
            /\ Done /\ ~response[1].success
            /\ response[1].error = Some(places_result[1])

\* the weather lookup reported the sentinel and run returned there
C3_Witness ==
    /\ Done /\ weather_result # None /\ IsDontKnow(weather_result[1])
    /\ ~IsWeatherSentence(weather_result[1])
    /\ response[1].error = Some(weather_result[1])

\* C4: when the forecast has no temperature, run does not abort: temperature
\* stays null, the places step runs and the weather-unavailable sentence is
\* part of the message.
C4_UnavailableKeptInMessage ==
    (Done /\ w_path = "unavailable" /\ ~IsDontKnow(weather_result[1])) =>
        /\ response[1].temperature = None
        /\ PlacesRan
        /\ (response[1].success => IsInfix(weather_result[1], response[1].message))

\* C5: a transport or timeout failure of the weather or of the places service
\* leaves success = true and error null when no "don't know" occurs in the run.
C5_TransportFailureKeepsSuccess ==
    (/\ Done
     /\ w_path \in FetchFailures \/ p_path \in FetchFailures
     /\ ~IsDontKnow(weather_result[1])
     /\ (PlacesRan => ~IsDontKnow(places_result[1])))
        => (response[1].success /\ response[1].error = None)

\* both services failed and the run succeeded
C5_Witness ==
    /\ Done /\ w_path = "timeout" /\ p_path = "reqerror"
    /\ response[1].success /\ response[1].error = None

\* C6: the failure string a lookup returns for a transport or timeout failure
\* is embedded in the message of the response.
C6_FailureStringInMessage ==
    Composed =>
        /\ (w_path \in FetchFailures =>
                IsInfix(weather_result[1], response[1].message))
        /\ (p_path \in FetchFailures =>
                IsInfix(places_result[1], response[1].message))

C8_StepOrder ==
    \A i \in 1..Len(calls) :
        /\ (calls[i] = "get_weather" =>
                \E j \in 1..(i - 1) : calls[j] = "run:get_coordinates:return")
        /\ (calls[i] = "get_tourist_places" =>
                \E j \in 1..(i - 1) : calls[j] = "get_weather:return")
        /\ (calls[i] = "POST overpass" =>
                \A j \in 1..Len(calls) : calls[j] = "GET open-meteo" => j < i)

\* a run that called the weather service and the places service
C8_Witness ==
    Done /\ Count(calls, "GET open-meteo") = 1 /\ Count(calls, "POST overpass") = 1

C10_AttractionBounds ==
    (Done /\ response # None) =>
        /\ (response[1].attractions # None =>
                Len(response[1].attractions[1]) <= 5)
        /\ (response[1].attractions_with_coords # None =>
                /\ response[1].attractions # None
                /\ Len(response[1].attractions_with_coords[1])
                      <= Len(response[1].attractions[1]))

\* a full list of attractions, fewer of them with coordinates
C10_Witness ==
    /\ Done /\ response[1].attractions # None
    /\ Len(response[1].attractions[1]) = 5
    /\ response[1].attractions_with_coords # None
    /\ Len(response[1].attractions_with_coords[1]) < 5

\* the names of the entries of attractions_with_coords
NamesOf(entries) == [i \in 1..Len(entries) |-> entries[i].name]

\* a is b with some entries left out
RECURSIVE IsSubsequence(_, _)
IsSubsequence(a, b) ==
    IF a = <<>> THEN TRUE
    ELSE IF b = <<>> THEN FALSE
    ELSE IF a[1] = b[1] THEN IsSubsequence(Tail(a), Tail(b))
    ELSE IsSubsequence(a, Tail(b))

\* C11: in every response run returns, the names of attractions_with_coords
\* are a subsequence of attractions: each is in attractions, in the same order.
C11_CoordsNamesSubsequence ==
    (Returned /\ response[1].attractions_with_coords # None) =>
        /\ response[1].attractions # None
        /\ IsSubsequence(NamesOf(response[1].attractions_with_coords[1]),
                         response[1].attractions[1])

\* C12: for a query that is empty or only whitespace run returns place
\* "Unknown", success = false and error = "Empty query", and calls no service.
C12_EmptyQueryRejected ==
    (Returned /\ IsBlank(user_query)) =>
        /\ response[1].place = <<A("Unknown")>>
        /\ ~response[1].success
        /\ response[1].error = Some(<<A("Empty query")>>)
        /\ calls = <<>> /\ answers = <<>>

\* run returned for the query " "
C12_Witness ==
    /\ Returned /\ user_query = <<W(""), W("")>>
    /\ response[1].error = Some(<<A("Empty query")>>)

\* C13: for a query (a string) that is not blank and from which no place name
\* is extracted, run raises nothing and returns success = false, error = "No
\* place name found in query" and the couldn't-identify message, and calls no
\* service.
C13_NoPlaceRejected ==
    (/\ Returned /\ user_query # NotAString /\ ~IsBlank(user_query)
     /\ extract_place_name(user_query) = <<>>) =>
        /\ ~Raised
        /\ ~response[1].success
        /\ response[1].error = Some(<<A("No place name found in query")>>)
        /\ response[1].message = <<A("I couldn't identify which place you're asking about. Please mention a place name.")>>
        /\ calls = <<>> /\ answers = <<>>

\* run returned for the query "hello there"
C13_Witness ==
    /\ Returned /\ user_query = <<W("hello"), W("there")>>
    /\ response[1].error = Some(<<A("No place name found in query")>>)

\* C14: a response with success = false holds no weather and no place data:
\* temperature, precipitation_chance, attractions and attractions_with_coords
\* are null.
C14_FailureHasNoData ==
    (Returned /\ ~response[1].success) =>
        /\ response[1].temperature = None
        /\ response[1].precipitation_chance = None
        /\ response[1].attractions = None
        /\ response[1].attractions_with_coords = None

\* C15: a response with success = true has a temperature when has_weather is
\* true and a non-empty list of attractions when has_places is true.
C15_FlagsImplyData ==
    (Returned /\ response[1].success) =>
        /\ (response[1].has_weather => response[1].temperature # None)
        /\ (response[1].has_places =>
                /\ response[1].attractions # None
                /\ response[1].attractions[1] # <<>>)

C18_ExceptionsBecomeResponses ==
    Raised =>
        /\ Returned /\ response # None
        /\ ~response[1].success
        /\ response[1].error = Some(answers[Len(answers)].text)
        /\ response[1].place =
              (IF place_name # <<>> THEN place_name ELSE <<A("Unknown")>>)

\* the invoke of the places lookup raised, after the weather step
C18_Witness ==
    /\ Raised /\ weather_result # None
    /\ response[1].place = <<A("Paris")>>
    /\ response[1].error = Some(ExcText)

\* a keyword of either list of determine_intent occurs in the query
HasIntentKeyword(q) == AnyKeyword(q, HasWeatherKw \cup HasPlacesKw)
\* a keyword of either child agent occurs in the query
HasAgentKeyword(q) == AnyKeyword(q, HasWeatherKeyword \cup HasPlacesKeyword)

\* C19: determine_intent and the parent agent's routing give at least one
\* true flag, and places is true by default exactly when no keyword of either
\* set occurs in the query.
C19_IntentNeverEmpty ==
    classified # None =>
        LET q == classified[1].query
            intent == classified[1].intent
            routing == classified[1].routing
        IN  /\ intent.weather \/ intent.places
            /\ routing.weather \/ routing.places
            /\ intent.weather = AnyKeyword(q, HasWeatherKw)
            /\ intent.places = (AnyKeyword(q, HasPlacesKw) \/ ~HasIntentKeyword(q))
            /\ routing.weather = AnyKeyword(q, HasWeatherKeyword)
            /\ routing.places = (AnyKeyword(q, HasPlacesKeyword) \/ ~HasAgentKeyword(q))

\* a query without any keyword: places by default
C19_Witness ==
    /\ classified # None
    /\ ~HasIntentKeyword(classified[1].query)
    /\ ~HasAgentKeyword(classified[1].query)
    /\ classified[1].intent = [weather |-> FALSE, places |-> TRUE]
    /\ classified[1].routing = [weather |-> FALSE, places |-> TRUE]

\* the place names among the words of the queries
PlaceWords == {W("Paris")}

\* the query holds one place name, its only capitalized word
OnePlaceName(q) ==
    /\ Cardinality({i \in 1..Len(q) : q[i] \in PlaceWords}) = 1
    /\ \A i \in 1..Len(q) : q[i] \in PlaceWords \/ ~TokUpperFirst(q[i])

\* C20: for a query that holds exactly one capitalized place name and no
\* intent keyword, extract_place_name returns that place name and
\* determine_intent returns places = true, weather = false.
C20_SinglePlaceExtracted ==
    (/\ classified # None
     /\ OnePlaceName(classified[1].query)
     /\ ~HasIntentKeyword(classified[1].query)) =>
        /\ classified[1].place = <<A("Paris")>>
        /\ classified[1].intent = [weather |-> FALSE, places |-> TRUE]

----------------------------------------------------------------------------
(* Properties of get_tourist_places                                        *)

\* get_tourist_places returned its list of places to run
ListedPlaces == PlacesRan /\ p_path = "ok"
\* the features the map service answered that call with
ListedElements == answers[Len(answers)].elements
\* the name of a line that holds one
LineName(line) == line[1].s
\* the names between the heading and "COORDS:" in the string returned
ReturnedNames ==
    LET lines == Split(Split(places_result[1], COORDS)[1], NL)
    IN  [i \in 1..(Len(lines) - 2) |-> LineName(lines[i + 1])]
\* the lines after "COORDS:" in the string returned
ReturnedCoordsLines ==
    LET block == Tail(Split(places_result[1], COORDS)[2])
    IN  IF block = <<>> THEN <<>> ELSE Split(block, NL)
\* the names of those lines
ReturnedCoordsNames ==
    [i \in 1..Len(ReturnedCoordsLines) |->
        LineName(Split(ReturnedCoordsLines[i], BAR)[1])]

\* a feature with a name
Named(element) == element.name \notin {None, Some("")}
\* the places of the first occurrence of each name among the features kept
FirstIndexes(elements, Kept(_)) ==
    SelectSeq([i \in 1..Len(elements) |-> i],
              LAMBDA i : /\ Named(elements[i]) /\ Kept(elements[i])
                         /\ \A j \in 1..(i - 1) :
                               Kept(elements[j]) => elements[j].name # elements[i].name)
\* the first five of them
FirstFive(elements, Kept(_)) ==
    LET firsts == FirstIndexes(elements, Kept)
    IN  SubSeq(firsts, 1, Min({Len(firsts), 5}))
AnyFeature(element) == TRUE

\* C22: the name list get_tourist_places returns holds the names of the
\* features in their order, each name once at its first occurrence (names
\* differing in case are different names), no unnamed feature, and ends with
\* the fifth name: it has no duplicate and at most 5 entries.
C22_UniqueNamesUpToFive ==
    ListedPlaces =>
        LET names == ReturnedNames
            firsts == FirstFive(ListedElements, AnyFeature)
        IN  /\ names = [i \in 1..Len(firsts) |-> ListedElements[firsts[i]].name[1]]
            /\ \A i, j \in 1..Len(names) : names[i] = names[j] => i = j
            /\ Len(names) <= 5

\* a list cut at five names, from features with an unnamed one, a name that
\* occurs twice and a sixth name; two of the names kept differ in case only
C22_Witness ==
    /\ ListedPlaces
    /\ Len(FirstIndexes(ListedElements, AnyFeature)) > 5
    /\ \E i \in 1..Len(ListedElements) : ListedElements[i].name = None
    /\ \E i, j \in 1..Len(ListedElements) :
          i # j /\ Named(ListedElements[i])
          /\ ListedElements[i].name = ListedElements[j].name
    /\ {"Louvre", "louvre"} \subseteq Range(ReturnedNames)
    /\ Len(ReturnedNames) = 5

\* a feature with a point latitude and longitude, or a way with a centroid
Resolved(element) ==
    \/ element.lat # None /\ element.lon # None
    \/ element.type = "way" /\ element.center # None

\* C23: a named feature with neither point coordinates nor a centroid is not
\* in the name list get_tourist_places returns, not in its COORDS block, and
\* not among the five names the list is cut at.
C23_UnlocatedFeatureSkipped ==
    ListedPlaces =>
        LET firsts == FirstFive(ListedElements, Resolved)
        IN  /\ \A i \in 1..Len(ListedElements) :
                   (Named(ListedElements[i]) /\ ~Resolved(ListedElements[i])) =>
                       /\ ListedElements[i].name[1] \notin Range(ReturnedNames)
                       /\ ListedElements[i].name[1] \notin Range(ReturnedCoordsNames)
            /\ ReturnedNames =
                  [i \in 1..Len(firsts) |-> ListedElements[firsts[i]].name[1]]

\* C29: the COORDS block of the string get_tourist_places returns has one
\* line for each name of the name list whose feature has a point latitude and
\* longitude or a way centroid, a coordinate of 0 included, in the order of
\* the name list.
C29_CoordsLineForEachResolved ==
    ListedPlaces =>
        LET firsts == FirstFive(ListedElements, AnyFeature)
            located == SelectSeq(firsts, LAMBDA i : Resolved(ListedElements[i]))
        IN  ReturnedCoordsNames =
                [i \in 1..Len(located) |-> ListedElements[located[i]].name[1]]

----------------------------------------------------------------------------
(* Properties of the weather step                                          *)

\* the answers of the forecast service
WeatherAnswers == SelectSeq(answers, LAMBDA a : "current" \in DOMAIN a)
\* get_weather returned its weather sentence to run
WeatherSucceeded == weather_result # None /\ w_path = "ok" /\ ~Raised

\* C26: once get_weather has returned its sentence, the temperature in run's
\* response is the temperature the forecast service reported, sign and
\* magnitude.
C26_TemperatureRoundTrip ==
    WeatherSucceeded =>
        response[1].temperature = WeatherAnswers[1].current.temperature_2m

----------------------------------------------------------------------------
(* Properties of every response of run                                     *)

\* C27: in every response run returns, by a return statement of its try
\* block or by its except clause, success is true exactly when error is null.
C27_SuccessIffNoError ==
    Returned => (response[1].success <=> response[1].error = None)

\* a response returned from the "don't know" branch of the places step
C27_Witness ==
    /\ Done /\ PlacesRan /\ IsDontKnow(places_result[1])
    /\ ~response[1].success /\ response[1].error # None

\* C28: every response run returns has a message that is not empty, the
\* responses of the "don't know" branches included.
C28_MessageNeverEmpty ==
    Returned => response[1].message # <<>>

----------------------------------------------------------------------------
(* Properties of the extraction on "going to go to X,"                     *)

\* words k..k+3 of q are "going to go to"
IsGoingTo(q, k) ==
    k + 4 <= Len(q) /\ SubSeq(q, k, k + 3) = <<W("going"), W("to"), W("go"), W("to")>>
\* words i..j of q are a capitalized name followed by a comma
IsNameWithComma(q, i, j) ==
    /\ i <= j /\ j <= Len(q)
    /\ \A n \in i..j : /\ q[n].pre = "" /\ q[n].w \in UpperFirst
                       /\ q[n].p = (IF n = j THEN "," ELSE "")
NameText(q, i, j) == Join([n \in 1..(j - i + 1) |-> <<A(q[i + n - 1].w)>>], A(" "))

\* C21: for a query "... going to go to X, ..." with X a capitalized name,
\* "I'm going to go to Bangalore, what is the temperature there" among them,
\* both agents extract exactly X, and weather is wanted when the query holds
\* a weather keyword.
C21_GoingToPlaceExtracted ==
    classified # None =>
        LET q == classified[1].query
        IN  \A k, j \in 1..Len(q) :
                (IsGoingTo(q, k) /\ IsNameWithComma(q, k + 4, j)) =>
                    /\ classified[1].place = NameText(q, k + 4, j)
                    /\ classified[1].parent_place = NameText(q, k + 4, j)
                    /\ AnyKeyword(q, HasWeatherKw) => classified[1].intent.weather
                    /\ AnyKeyword(q, HasWeatherKeyword) => classified[1].routing.weather

----------------------------------------------------------------------------
(* Properties of plan_trip                                                 *)

\* the credential is unset, "" or " "
BlankKeys == {None, Some(<<>>), Some(<<A(" ")>>)}
\* plan_trip has sent its reply
Replied == web.state = "replied"

\* C24: while plan_trip handles a request with mistral_api_key unset or
\* blank, the pipeline is not run, and the reply is a response with
\* success = false and the configuration error.
C24_NoPipelineWithoutKey ==
    (web.state # "idle" /\ web.key \in BlankKeys) =>
        /\ ~web.invoked
        /\ pc = "idle" /\ calls = <<>>
        /\ Replied =>
              /\ ~web.reply[1].body.success
              /\ web.reply[1].body.error = Some(<<A("Missing mistral_api_key environment variable. Please configure it in Railway.")>>)

\* a request with a place in its query answered while the credential is " "
C24_Witness ==
    /\ Replied /\ web.key = Some(<<A(" ")>>)
    /\ ~IsBlank(web.query) /\ extract_place_name(web.query) # <<>>
    /\ ~web.reply[1].body.success

\* C30: with the credential configured, a request whose query is empty or
\* only whitespace gets the HTTP error 400 "Query cannot be empty" as its
\* reply, and the pipeline is not run.
C30_EmptyQueryIsHttp400 ==
    (Replied /\ web.key \notin BlankKeys /\ IsBlank(web.query)) =>
        /\ web.reply[1].status = 400
        /\ web.reply[1].body = [detail |-> <<A("Query cannot be empty")>>]
        /\ ~web.invoked

----------------------------------------------------------------------------
(* Properties of the parent agent                                          *)

\* the child agents the parent agent has run, in order
InvokedAgents == [i \in 1..Len(parent.invoked) |-> parent.invoked[i].agent]
\* a is the beginning of b
IsPrefix(a, b) == Len(a) <= Len(b) /\ SubSeq(b, 1, Len(a)) = a

====
